---- MODULE Spec2Model ----
(***************************************************************************)
(* A model of prezerolog (src/prezerolog.go): the level-gated multi-writer,*)
(* the logging verbs and Fatal, the rotating file sink and the lazily      *)
(* initialised singleton.                                                  *)
(*                                                                         *)
(* src/prezerolog.go holds two variants of the package: lines 1-597 (the   *)
(* current one, with per-destination thresholds) and lines 599-1077 (the   *)
(* older one, whose RotatingLogger carries baseName, index and a mutex).   *)
(* The facade and the multi-writer are modelled from the current variant,  *)
(* the rotating sink from the older one, the only one that has an index.   *)
(*                                                                         *)
(* Two libraries are called but are not part of the repository: zerolog    *)
(* (events, level gate, sampler, the exit hook of Logger.Fatal) and        *)
(* lumberjack (size-triggered rotation, backups, pruning).  Their behaviour*)
(* is modelled at the call sites, as the library versions the code imports *)
(* behave.                                                                 *)
(***************************************************************************)
EXTENDS Integers, Sequences, FiniteSets, TLC

(***************************************************************************)
(* Bounds of the model.                                                    *)
(***************************************************************************)
MaxCounter == 3

MaxSamplingN == 2

(***************************************************************************)
(* zerolog.Level values, as parseLevel returns them.                       *)
(***************************************************************************)
TraceLevel == -1

DebugLevel == 0

InfoLevel == 1

WarnLevel == 2

ErrorLevel == 3

FatalLevel == 4

PanicLevel == 5

NoLevel == 6

\* The levels of the non-fatal verbs Trace, Debug, Info, Warn, Error.
VerbLevels == {TraceLevel, DebugLevel, InfoLevel, WarnLevel, ErrorLevel}

\* Values of LOG_CONSOLE_LEVEL / LOG_FILE_LEVEL after TrimSpace and ToLower.
LevelStrings ==
  {"trace", "debug", "info", "", "warn", "warning", "error", "fatal", "panic", "verbose"}

parseLevel(s) ==
  CASE s = "trace" -> TraceLevel
    [] s = "debug" -> DebugLevel
    [] s \in {"info", ""} -> InfoLevel
    [] s \in {"warn", "warning"} -> WarnLevel
    [] s = "error" -> ErrorLevel
    [] s = "fatal" -> FatalLevel
    [] s = "panic" -> PanicLevel
    [] OTHER -> NoLevel

\* InitLogging: an unrecognised level string falls back to info.
ConfiguredLevel(s) ==
  IF parseLevel(s) = NoLevel THEN InfoLevel ELSE parseLevel(s)

\* Values of LOG_CONSOLE_OUTPUT after TrimSpace and ToLower.
ConsoleModes == {"json", "minimal", "extended", "full", "other"}

(***************************************************************************)
(* Destinations.  A writer is named by what it writes to: "file" is the    *)
(* rotating sink, "stdout" raw JSON on os.Stdout, "console" a              *)
(* zerolog.ConsoleWriter on os.Stderr; NilWriter is a nil io.Writer.       *)
(***************************************************************************)
NilWriter == "nil"

Writers == {"file", "stdout", "console"}

levelDest(w, min) == [w |-> w, min |-> min]

\* The console destination chosen by the switch on LOG_CONSOLE_OUTPUT.
ConsoleDest(mode, consoleLevel) ==
  IF mode = "json"
    THEN levelDest("stdout", consoleLevel)
    ELSE levelDest("console", consoleLevel)

\* A destination list that takes the file destination on fileEnabled alone.
BuildDestsNoRotatorTest(rotatorSet, fileEnabled, consoleEnabled, mode, consoleLevel, fileLevel) ==
  LET fileD == IF fileEnabled THEN <<levelDest("file", fileLevel)>> ELSE <<>>
      consD == IF consoleEnabled
                 THEN <<ConsoleDest(mode, consoleLevel)>> ELSE <<>>
      ds == fileD \o consD
  IN IF Len(ds) = 0 THEN <<levelDest("stdout", InfoLevel)>> ELSE ds

\* configureZerolog, the destination list: file first, then console, and the
\* stdout-at-info fallback when nothing was enabled.
BuildDests(rotatorSet, fileEnabled, consoleEnabled, mode, consoleLevel, fileLevel) ==
  LET fileD == IF fileEnabled /\ rotatorSet
                 THEN <<levelDest("file", fileLevel)>> ELSE <<>>
      consD == IF consoleEnabled
                 THEN <<ConsoleDest(mode, consoleLevel)>> ELSE <<>>
      ds == fileD \o consD
  IN IF Len(ds) = 0 THEN <<levelDest("stdout", InfoLevel)>> ELSE ds

RECURSIVE MinFrom(_, _, _)
\* The loop of configureZerolog over dests[1:], keeping the lowest threshold.
MinFrom(ds, i, m) ==
  IF i > Len(ds) THEN m
  ELSE MinFrom(ds, i + 1, IF ds[i].min < m THEN ds[i].min ELSE m)

RECURSIVE MaxFrom(_, _, _)
MaxFrom(ds, i, m) ==
  IF i > Len(ds) THEN m
  ELSE MaxFrom(ds, i + 1, IF ds[i].min > m THEN ds[i].min ELSE m)

\* A gate that keeps the highest threshold instead of the lowest.
BaseLevelHighest(ds) == MaxFrom(ds, 2, ds[1].min)

\* The level of the base logger: the lowest destination threshold.
BaseLevel(ds) == MinFrom(ds, 2, ds[1].min)


(***************************************************************************)
(* multiLevelWriter.  p is a record's bytes, modelled as the sequence of   *)
(* its key/value pairs in the order they are encoded; len(p) is Len(p).    *)
(* failing is the set of writers whose Write returns an error.             *)
(***************************************************************************)
NoError == "<nil>"

\* d.w.Write(p) of one destination: what the destination reports back.
DestWrite(w, p, failing) ==
  IF w \in failing
    THEN [n |-> 0, err |-> "write failed"]
    ELSE [n |-> Len(p), err |-> NoError]

\* A threshold test that is off by one level.
QualifiesAbove(d, level) == d.w # NilWriter /\ level > d.min

\* The condition of WriteLevel's loop body: d.w != nil && level >= d.min.
Qualifies(d, level) == d.w # NilWriter /\ level >= d.min

RECURSIVE WriteLevelStop(_, _, _, _, _, _)
\* A WriteLevel that returns the first destination error to its caller.
WriteLevelStop(ds, i, level, p, failing, tried) ==
  IF i > Len(ds) THEN [tried |-> tried, n |-> Len(p), err |-> NoError]
  ELSE IF Qualifies(ds[i], level)
    THEN LET r == DestWrite(ds[i].w, p, failing)
         IN IF r.err # NoError
              THEN [tried |-> Append(tried, ds[i].w), n |-> r.n, err |-> r.err]
              ELSE WriteLevelStop(ds, i + 1, level, p, failing, Append(tried, ds[i].w))
    ELSE WriteLevelStop(ds, i + 1, level, p, failing, tried)

RECURSIVE WriteLevelFrom(_, _, _, _, _, _)
\* multiLevelWriter.WriteLevel, from destination i on: tried is the list of
\* writers whose Write has been called so far; both results of d.w.Write are
\* discarded and the loop goes on.
WriteLevelFrom(ds, i, level, p, failing, tried) ==
  IF i > Len(ds) THEN [tried |-> tried, n |-> Len(p), err |-> NoError]
  ELSE IF Qualifies(ds[i], level)
    THEN LET r == DestWrite(ds[i].w, p, failing)
         IN WriteLevelFrom(ds, i + 1, level, p, failing, Append(tried, ds[i].w))
    ELSE WriteLevelFrom(ds, i + 1, level, p, failing, tried)

WriteLevel(ds, level, p, failing) == WriteLevelFrom(ds, 1, level, p, failing, <<>>)

RECURSIVE WriteFrom(_, _, _, _, _)
\* multiLevelWriter.Write, the level-less form: every non-nil destination.
WriteFrom(ds, i, p, failing, tried) ==
  IF i > Len(ds) THEN [tried |-> tried, n |-> Len(p), err |-> NoError]
  ELSE IF ds[i].w # NilWriter
    THEN LET r == DestWrite(ds[i].w, p, failing)
         IN WriteFrom(ds, i + 1, p, failing, Append(tried, ds[i].w))
    ELSE WriteFrom(ds, i + 1, p, failing, tried)

Write(ds, p, failing) == WriteFrom(ds, 1, p, failing, <<>>)

\* The writers' view of a multi-writer call: p appended to each tried writer.
Deliver(o, tried, p) ==
  [w \in DOMAIN o |->
     IF \E k \in 1..Len(tried) : tried[k] = w THEN Append(o[w], p) ELSE o[w]]

(***************************************************************************)
(* Call-site arguments.  An argument is a record tagged by the case of     *)
(* processLogArgs' type switch it falls into.                              *)
(***************************************************************************)
StringArg(v) == [kind |-> "string", v |-> v]

ErrorArg(v) == [kind |-> "error", v |-> v]

MapArg(m) == [kind |-> "map", m |-> m]

StringerArg(v) == [kind |-> "stringer", v |-> v]

\* A FatalError value; File and Message are left at their zero value "".
FatalErrorArg(code) == [kind |-> "FatalError", Code |-> code, Message |-> "", File |-> ""]

NilArg == [kind |-> "nil"]

\* A nil pointer of a type without a String method.
NilPtrArg == [kind |-> "nilptr"]

\* A nil pointer of a type whose method set has String() and whose String
\* reads through its receiver: a value-receiver method reached through the
\* pointer, as for (*time.Time)(nil), or a pointer-receiver method that does
\* not test for nil.  It satisfies fmt.Stringer, and calling String panics.
NilStringerArg == [kind |-> "nilstringer"]

ScalarArg(v) == [kind |-> "scalar", v |-> v]

\* The decimal text of the exit codes that occur in the model.
CodeText(c) ==
  CASE c = 0 -> "0" [] c = 1 -> "1" [] c = 2 -> "2" [] c = 42 -> "42" [] OTHER -> "n"

NoFields == [k \in {} |-> ""]

\* A merge that keeps the value a key already has.
mergeMapKeepFirst(target, source) ==
  [k \in DOMAIN target \cup DOMAIN source |->
     IF k \in DOMAIN target THEN target[k] ELSE source[k]]

\* mergeMap: target[k] = v for every entry of source.
mergeMap(target, source) ==
  [k \in DOMAIN target \cup DOMAIN source |->
     IF k \in DOMAIN source THEN source[k] ELSE target[k]]

\* mergeStruct: nil is skipped, a struct contributes its exported fields, any
\* other value is stored under "value".
mergeStruct(target, obj) ==
  CASE obj.kind \in {"nil", "nilptr"} -> target
    [] obj.kind = "FatalError" ->
         mergeMap(target, [k \in {"Message", "Code", "File"} |->
                    CASE k = "Message" -> obj.Message
                      [] k = "Code" -> CodeText(obj.Code)
                      [] OTHER -> obj.File])
    [] OTHER -> mergeMap(target, [k \in {"value"} |-> obj.v])

RECURSIVE processLogArgsFrom(_, _, _)
\* The loop of processLogArgs from argument i on; acc is (message, fields,
\* errVal), and panic once a call made by the loop has panicked, which ends it.
processLogArgsFrom(args, i, acc) ==
  IF i > Len(args) \/ acc.panic THEN acc
  ELSE LET arg == args[i]
           next ==
             CASE arg.kind = "string" -> [acc EXCEPT !.message = arg.v]
               [] arg.kind = "error" -> [acc EXCEPT !.err = arg.v]
               [] arg.kind = "map" -> [acc EXCEPT !.fields = mergeMap(acc.fields, arg.m)]
               [] arg.kind = "stringer" ->
                    IF acc.message = ""
                      THEN [acc EXCEPT !.message = arg.v]
                      ELSE [acc EXCEPT !.fields =
                              mergeMap(acc.fields, [k \in {"value"} |-> arg.v])]
               [] arg.kind = "nilstringer" -> [acc EXCEPT !.panic = TRUE]
               [] OTHER -> [acc EXCEPT !.fields = mergeStruct(acc.fields, arg)]
       IN processLogArgsFrom(args, i + 1, next)

processLogArgs(args) ==
  processLogArgsFrom(args, 1, [message |-> "", fields |-> NoFields, err |-> NoError,
                               panic |-> FALSE])

(***************************************************************************)
(* Record assembly.  A record's bytes are the sequence of its key/value    *)
(* pairs in zerolog's encoding order: level, the logger context (service,  *)
(* env, correlation ids), then what the call adds to the event (caller,    *)
(* fields, err), then the timestamp hook and the message.                  *)
(***************************************************************************)
LevelName(level) ==
  CASE level = TraceLevel -> "trace"
    [] level = DebugLevel -> "debug"
    [] level = InfoLevel -> "info"
    [] level = WarnLevel -> "warn"
    [] level = ErrorLevel -> "error"
    [] level = FatalLevel -> "fatal"
    [] level = PanicLevel -> "panic"
    [] OTHER -> ""

\* What ctx.Value(key) can give: nothing, a string, or a value of another type.
Unset == [kind |-> "unset"]

Str(v) == [kind |-> "string", v |-> v]

NotAString == [kind |-> "other"]

\* v, _ := ctx.Value(key).(string): the string, or "" when the assertion fails.
CtxString(x) == IF x.kind = "string" THEN x.v ELSE ""

\* A context without correlation identifiers.
NoCtx == [request_id |-> Unset, trace_id |-> Unset, span_id |-> Unset]

\* A context lookup that tells a stored string from a missing one only.
CtxPairsIfSet(ctx) ==
  (IF ctx.request_id.kind = "string"
     THEN << <<"request_id", CtxString(ctx.request_id)>> >> ELSE <<>>)
  \o (IF ctx.trace_id.kind = "string"
        THEN << <<"trace_id", CtxString(ctx.trace_id)>> >> ELSE <<>>)
  \o (IF ctx.span_id.kind = "string"
        THEN << <<"span_id", CtxString(ctx.span_id)>> >> ELSE <<>>)

\* logEventCtx: request_id, trace_id, span_id in that order, each only if non-empty.
CtxPairs(ctx) ==
  (IF CtxString(ctx.request_id) # ""
     THEN << <<"request_id", CtxString(ctx.request_id)>> >> ELSE <<>>)
  \o (IF CtxString(ctx.trace_id) # ""
        THEN << <<"trace_id", CtxString(ctx.trace_id)>> >> ELSE <<>>)
  \o (IF CtxString(ctx.span_id) # ""
        THEN << <<"span_id", CtxString(ctx.span_id)>> >> ELSE <<>>)

\* The orders in which a set of keys can be visited.
KeyOrders(keys) ==
  {o \in [1..Cardinality(keys) -> keys] : \A i, j \in DOMAIN o : i # j => o[i] # o[j]}

\* Go's range over a map visits the keys in an unspecified order.
RangeOrders(fields) == KeyOrders(DOMAIN fields)

FieldPairs(fields, order) == [i \in DOMAIN order |-> <<order[i], fields[order[i]]>>]

\* The bytes of one event.
Encode(now, level, ctx, caller, fields, order, err, message) ==
  << <<"level", LevelName(level)>>, <<"service", "svc">>, <<"env", "production">> >>
  \o CtxPairs(ctx)
  \o (IF caller # "" THEN << <<"caller", caller>> >> ELSE <<>>)
  \o FieldPairs(fields, order)
  \o (IF err # NoError THEN << <<"err", err>> >> ELSE <<>>)
  \o << <<"time", now>> >>
  \o (IF message # "" THEN << <<"msg", message>> >> ELSE <<>>)

(***************************************************************************)
(* zerolog's gate, as Logger.should applies it: the level of the logger    *)
(* first, then the sampler if one is installed.  BasicSampler counts the   *)
(* events it is asked about and lets through those with counter % N == 1.  *)
(*                                                                         *)
(* The counter is a uint32 incremented with atomic.AddUint32, so it wraps  *)
(* from 2^32 - 1 to 0.  It is held here as the 32-bit pattern read as a    *)
(* signed number: c >= 0 stands for the value c, c < 0 for c + 2^32, and   *)
(* the wrap is the step from -1 to 0.                                      *)
(***************************************************************************)
MaxInt32 == 2147483647

\* 2^32 mod n.
Pow32Mod(n) == ((((MaxInt32 % n) + 1) % n) * 2) % n

\* c % n on the unsigned value that the pattern c stands for.
Uint32Mod(c, n) == IF c >= 0 THEN c % n ELSE ((c % n) + Pow32Mod(n)) % n

\* configureZerolog installs a sampler only if LOG_SAMPLING_N > 1.
HasSampler(n) == n > 1

\* A gate that asks the sampler before it looks at the level.
ShouldSampleFirst(level, gate, n, counter) ==
  IF HasSampler(n)
    THEN LET c == counter + 1
         IN [enabled |-> level >= gate /\ Uint32Mod(c, n) = 1, counter |-> c]
    ELSE [enabled |-> level >= gate, counter |-> counter]

\* Logger.should(level): [enabled, counter after the call].
Should(level, gate, n, counter) ==
  IF level < gate THEN [enabled |-> FALSE, counter |-> counter]
  ELSE IF HasSampler(n)
    THEN LET c == counter + 1
         IN [enabled |-> Uint32Mod(c, n) = 1, counter |-> c]
    ELSE [enabled |-> TRUE, counter |-> counter]

(***************************************************************************)
(* userCaller.  A call stack is the sequence of its frames, innermost      *)
(* first, so that runtime.Caller(i) is stack[i + 1].  A frame carries the  *)
(* function name as runtime.FuncForPC gives it, split at its separators    *)
(* (the Info method of Logger in github.com/renegadevi/prezerolog is the   *)
(* import path github.com / renegadevi / prezerolog and the symbol         *)
(* *Logger . Info, the parentheses around a pointer receiver left out),    *)
(* the file as the segments of its absolute path, and the line.  pkg says  *)
(* which package the frame's code really belongs to; the code cannot see   *)
(* it.                                                                     *)
(***************************************************************************)
Frame(pkg, path, sym, file, line) ==
  [pkg |-> pkg, fn |-> [path |-> path, sym |-> sym], file |-> file, line |-> line]

\* strings.ToLower, on the name and path elements that occur in the model.
ToLower(s) ==
  CASE s = "Prezerolog" -> "prezerolog"
    [] s = "PrezeroLog" -> "prezerolog"
    [] s = "*Logger" -> "*logger"
    [] s = "Info" -> "info"
    [] s = "Fatal" -> "fatal"
    [] s = "logEvent" -> "logevent"
    [] s = "userCaller" -> "usercaller"
    [] s = "Run" -> "run"
    [] OTHER -> s

\* strings.Contains(name, "/prezerolog."): an element of the import path
\* after the first that is prezerolog and is followed by the symbol's dot.
HasSlashMarker(fn) ==
  Len(fn.path) >= 2 /\ ToLower(fn.path[Len(fn.path)]) = "prezerolog"

\* strings.Contains(name, ".prezerolog."): an element of the symbol that is
\* prezerolog and is followed by another.
HasDotMarker(fn) ==
  \E j \in 1..(Len(fn.sym) - 1) : ToLower(fn.sym[j]) = "prezerolog"

\* strings.Contains(p, "/prezerolog/"): a directory of the path named so.
HasDirMarker(file) ==
  \E j \in 1..(Len(file) - 1) : ToLower(file[j]) = "prezerolog"

isThisPackageFrame(f) ==
  \/ HasSlashMarker(f.fn) \/ HasDotMarker(f.fn)
  \/ HasDirMarker(f.file)

\* The bounds of userCaller's loop: for i := 2; i < 30; i++.
FirstFrame == 2

FrameLimit == 30

\* filepath.Base of a path given by its segments.
Base(file) == file[Len(file)]

\* The empty string userCaller returns when it finds no frame.
NoCaller == ""

RECURSIVE userCallerFrom(_, _)
\* The loop of userCaller from runtime.Caller(i) on.
userCallerFrom(stack, i) ==
  IF i >= FrameLimit \/ i + 1 > Len(stack) THEN NoCaller
  ELSE IF ~isThisPackageFrame(stack[i + 1])
    THEN Base(stack[i + 1].file) \o ":" \o ToString(stack[i + 1].line)
    ELSE userCallerFrom(stack, i + 1)

userCaller(stack) == userCallerFrom(stack, FirstFrame)

\* Frames of the package, of an application and of the Go runtime.
PkgFile == <<"go", "pkg", "mod", "github.com", "renegadevi", "prezerolog@v0.1.0", "prezerolog.go">>

PkgPath == <<"github.com", "renegadevi", "prezerolog">>

UserCallerFrame == Frame("prezerolog", PkgPath, <<"userCaller">>, PkgFile, 460)

LogEventFrame == Frame("prezerolog", PkgPath, <<"*Logger", "logEvent">>, PkgFile, 350)

VerbFrame == Frame("prezerolog", PkgPath, <<"*Logger", "Info">>, PkgFile, 287)

ShortcutFrame == Frame("prezerolog", PkgPath, <<"Info">>, PkgFile, 497)

MainFrame == Frame("app", <<"main">>, <<"main">>, <<"srv", "app", "main.go">>, 14)

RuntimeFrame == Frame("runtime", <<"runtime">>, <<"main">>, <<"usr", "local", "go", "src", "runtime", "proc.go">>, 283)

\* The stack of log.Info(...) called from main.
AppStack ==
  <<UserCallerFrame, LogEventFrame, VerbFrame, ShortcutFrame, MainFrame, RuntimeFrame>>

(***************************************************************************)
(* State.                                                                  *)
(*                                                                         *)
(* Facade (configureZerolog, the verbs, Fatal):                            *)
(*   dests, gate, samplingN   the multi-writer's list, the base logger's   *)
(*                            level and LOG_SAMPLING_N                     *)
(*   consoleOut               Logger.consoleOut                            *)
(*   counter                  BasicSampler.counter                         *)
(*   last                     the latest logging call                      *)
(*   out                      per writer, the bytes its Write was given by *)
(*                            the latest call                              *)
(*   exited, exitCode         whether and how the process has terminated   *)
(*   recent                   with a sampler installed, its counter and    *)
(*                            answer at each of the latest non-fatal calls *)
(*                            that passed the gate, oldest first, at most  *)
(*                            N of them                                    *)
(*   cfg                      the arguments configureZerolog is called     *)
(*                            with, where the model runs it as a step      *)
(*   stack                    the call stack the logging calls come from   *)
(* Multi-writer on its own:   mwDests, mwFailing, mwLast                   *)
(* Rotating sink (older variant) and lumberjack underneath:                *)
(*   rlIndex, rlFilename      RotatingLogger.index and .Filename           *)
(*   ljFile, ljSize           lumberjack's open file and its size          *)
(*   files                    the log directory: file name -> size         *)
(*   clock                    time, as stamped into backup names           *)
(*   millPending              a pending request to lumberjack's mill       *)
(*   mu, pc, req              RotatingLogger.mu and each goroutine's place *)
(*   ops, lastWrite           operations started; what the last Write did  *)
(* Singleton:                                                              *)
(*   AppLogger, installed     the package variable and log.Logger's set    *)
(*   sinks                    every rotating sink created, and its handle  *)
(*   ipc, initRuns            each goroutine's place, runs of InitLogging  *)
(***************************************************************************)
VARIABLES dests, gate, samplingN, consoleOut, counter, last, out, exited,
          exitCode, recent, cfg, stack,
          mwDests, mwFailing, mwLast,
          rlIndex, rlFilename, ljFile, ljSize, files, clock, millPending,
          mu, pc, req, ops, lastWrite,
          AppLogger, installed, sinks, ipc, initRuns

facadeVars ==
  <<dests, gate, samplingN, consoleOut, counter, last, out, exited, exitCode,
    recent, cfg, stack>>

mwVars == <<mwDests, mwFailing, mwLast>>

rotVars == <<rlIndex, rlFilename, ljFile, ljSize, files, clock, millPending,
             mu, pc, req, ops, lastWrite>>

initVars == <<AppLogger, installed, sinks, ipc, initRuns>>

vars == <<facadeVars, mwVars, rotVars, initVars>>

(***************************************************************************)
(* The facade after InitLogging: every configuration the environment can   *)
(* select.  InitLogging passes a rotator exactly when LOG_FILE is on.      *)
(***************************************************************************)
SamplingNs == 0..MaxSamplingN

NoOut == [w \in Writers |-> <<>>]

\* No call yet.  Of a call, last keeps the verb, level, context and arguments,
\* what processLogArgs returned (norm), whether gate and sampler let the
\* event through (enabled), and the bytes of the event (p).
NoLast ==
  [verb |-> "none", level |-> NoLevel, ctx |-> NoCtx, args |-> <<>>,
   norm |-> processLogArgs(<<>>), enabled |-> FALSE, p |-> <<>>]

\* The exit status of a Go program that ends in an unrecovered panic.
PanicExit == 2

\* No configuration step recorded.
NoCfg == [set |-> FALSE]

\* The write failures a call can meet: none, or a full disk.
FailureCases == {{}, {"file"}}

FacadeInit ==
  /\ \E fileEnabled, consoleEnabled \in BOOLEAN, mode \in ConsoleModes,
        cl, fl \in LevelStrings, n \in SamplingNs :
       /\ dests = BuildDests(fileEnabled, fileEnabled, consoleEnabled, mode,
                             ConfiguredLevel(cl), ConfiguredLevel(fl))
       /\ consoleOut = consoleEnabled
       /\ samplingN = n
  /\ gate = BaseLevel(dests)
  /\ counter = 0
  /\ last = NoLast
  /\ out = NoOut
  /\ exited = FALSE
  /\ exitCode = 0
  /\ recent = <<>>
  /\ cfg = NoCfg
  /\ stack = AppStack

\* The facade left unconfigured, for the specifications that do not use it.
FacadeIdle ==
  /\ dests = <<levelDest("stdout", InfoLevel)>>
  /\ gate = InfoLevel
  /\ samplingN = 1
  /\ consoleOut = FALSE
  /\ counter = 0
  /\ last = NoLast
  /\ out = NoOut
  /\ exited = FALSE
  /\ exitCode = 0
  /\ recent = <<>>
  /\ cfg = NoCfg
  /\ stack = AppStack

\* The call site userCaller reports for a call from main.
AppCallSite == userCaller(AppStack)

\* The sampler's latest answers, with one more: the last n of them.
Recent(seq, x, n) ==
  LET all == Append(seq, x)
  IN IF Len(all) > n THEN SubSeq(all, Len(all) - n + 1, Len(all)) ELSE all

\* What zerolog.TimestampFunc returns during the calls of the model.
Now == "2025-08-10T13:45:15.123456789Z"

\* The argument lists of the model's non-fatal calls.
LogArgLists ==
  { <<StringArg("login")>>,
    <<StringArg("login"), MapArg([user |-> "alice"])>> }

\* The context of the model's Ctx calls: trace_id and request_id, no span_id.
CtxSet == { [request_id |-> Str("req-2"), trace_id |-> Str("tr-1"), span_id |-> Unset] }

\* The event of a non-fatal verb, shared by logEvent and logEventCtx: gate and
\* sampler (in WithLevel), the caller, processLogArgs, then one WriteLevel on
\* the multi-writer with the event's level.  A panic in processLogArgs leaves
\* the call before anything is written; the applications of the model do not
\* recover, so the process ends.
Emit(verb, level, ctx, args) ==
  LET r == processLogArgs(args)
      s == Should(level, gate, samplingN, counter)
  IN \E order \in RangeOrders(r.fields), failing \in FailureCases :
       LET p == IF r.panic THEN <<>>
                ELSE Encode(Now, level, ctx, userCaller(stack), r.fields, order, r.err,
                            r.message)
           w == WriteLevel(dests, level, p, failing)
       IN /\ counter' = s.counter
          /\ out' = IF s.enabled /\ ~r.panic THEN Deliver(NoOut, w.tried, p) ELSE NoOut
          /\ last' = [verb |-> verb, level |-> level, ctx |-> ctx, args |-> args,
                      norm |-> r, enabled |-> s.enabled, p |-> p]
          /\ exited' = r.panic
          /\ exitCode' = IF r.panic THEN PanicExit ELSE exitCode
          /\ recent' = IF HasSampler(samplingN) /\ level >= gate
                         THEN Recent(recent, [c |-> s.counter, on |-> s.enabled],
                                     samplingN)
                         ELSE recent
          /\ UNCHANGED <<dests, gate, samplingN, consoleOut, cfg, stack>>

\* Trace, Debug, Info, Warn, Error: Logger.logEvent.
logEvent(level, args) ==
  /\ ~exited
  /\ counter < MaxCounter
  /\ Emit("log", level, NoCtx, args)
  /\ UNCHANGED <<mwVars, rotVars, initVars>>

\* TraceCtx .. ErrorCtx: Logger.logEventCtx, on a child logger that carries
\* the non-empty correlation ids and shares level, sampler and writer.
logEventCtx(ctx, level, args) ==
  /\ ~exited
  /\ counter < MaxCounter
  /\ Emit("logctx", level, ctx, args)
  /\ UNCHANGED <<mwVars, rotVars, initVars>>

(***************************************************************************)
(* Fatal.                                                                  *)
(***************************************************************************)
\* The position of a field key in sort.Strings order (byte order), for the
\* keys that occur in the model.
KeyRank(k) ==
  CASE k = "Code" -> 1 [] k = "File" -> 2 [] k = "Message" -> 3 [] k = "role" -> 4
    [] k = "stack" -> 5 [] k = "user" -> 6 [] k = "value" -> 7 [] OTHER -> 8

\* Event.Fields(map) encodes the entries in sorted key order.
SortedOrder(fields) ==
  CHOOSE o \in KeyOrders(DOMAIN fields) :
    \A i, j \in DOMAIN o : i < j => KeyRank(o[i]) < KeyRank(o[j])

RECURSIVE ExitCodeFrom(_, _)
\* The loop at the end of Logger.Fatal: the Code of the first FatalError
\* argument whose Code is not 0, and 1 if there is none.
ExitCodeFrom(args, i) ==
  IF i > Len(args) THEN 1
  ELSE IF args[i].kind = "FatalError" /\ args[i].Code # 0 THEN args[i].Code
  ELSE ExitCodeFrom(args, i + 1)

ExitCodeFromArgs(args) == ExitCodeFrom(args, 1)

\* log.Logger.Fatal() builds its event with zerolog's exit hook: when the
\* event is sent (Msg or Send), or at once when the gate or the sampler
\* rejects it, the hook calls os.Exit(1).
FatalHookExit == 1

\* The argument lists of the model's Fatal calls.
FatalArgLists ==
  { <<StringArg("boom"), ErrorArg("x")>>,
    <<StringArg("boom"), FatalErrorArg(42)>>,
    <<FatalErrorArg(0), FatalErrorArg(2), FatalErrorArg(42)>>,
    <<>> }

\* Logger.Fatal.  The event comes from log.Logger.Fatal(), so it passes the
\* same gate and sampler as any event, is written with WriteLevel at fatal
\* level, and the process ends in zerolog's hook: the loop over args and
\* os.Exit(code) after ev.Msg / ev.Send are never reached.  A panic in
\* processLogArgs, the first statement, ends the call before the event exists.
Fatal(args) ==
  /\ ~exited
  /\ counter < MaxCounter
  /\ LET r == processLogArgs(args)
         fields == IF consoleOut
                     THEN mergeMap(r.fields, [k \in {"stack"} |-> "goroutine 1 [running]"])
                     ELSE r.fields
         s == IF r.panic THEN [enabled |-> FALSE, counter |-> counter]
              ELSE Should(FatalLevel, gate, samplingN, counter)
         p == IF r.panic THEN <<>>
              ELSE Encode(Now, FatalLevel, NoCtx, userCaller(stack), fields,
                          SortedOrder(fields), r.err, r.message)
     IN \E failing \in FailureCases :
          LET w == WriteLevel(dests, FatalLevel, p, failing)
          IN /\ counter' = s.counter
             /\ out' = IF s.enabled THEN Deliver(NoOut, w.tried, p) ELSE NoOut
             /\ last' = [verb |-> "Fatal", level |-> FatalLevel, ctx |-> NoCtx,
                         args |-> args, norm |-> r, enabled |-> s.enabled, p |-> p]
             /\ exitCode' = IF r.panic THEN PanicExit ELSE FatalHookExit
  /\ exited' = TRUE
  /\ UNCHANGED <<dests, gate, samplingN, consoleOut, recent, cfg, stack>>
  /\ UNCHANGED <<mwVars, rotVars, initVars>>

\* FatalCode: args = append(args, FatalError{Code: code}), then Fatal.
FatalCode(code, args) == Fatal(Append(args, FatalErrorArg(code)))

(***************************************************************************)
(* The multi-writer on its own, over any destination list.                 *)
(***************************************************************************)
MaxDests == 2

MWWriters == {"a", "b"}

MWMins == {InfoLevel, ErrorLevel}

MWLevels == {TraceLevel, DebugLevel, InfoLevel, WarnLevel, ErrorLevel, FatalLevel, NoLevel}

MWPayloads == { << <<"msg", "a">> >>, << <<"level", "info">>, <<"msg", "b">> >> }

MWDestLists ==
  UNION {[1..n -> [w : MWWriters \cup {NilWriter}, min : MWMins]] : n \in 0..MaxDests}

NoCall == [op |-> "none", level |-> NoLevel, p |-> <<>>, tried |-> <<>>, n |-> 0,
           err |-> NoError]

MWInit ==
  /\ mwDests \in MWDestLists
  /\ mwFailing \in SUBSET MWWriters
  /\ mwLast = NoCall

MWIdle ==
  /\ mwDests = <<>>
  /\ mwFailing = {}
  /\ mwLast = NoCall

\* One call of multiLevelWriter.WriteLevel.
MWWriteLevel(level, p) ==
  /\ LET r == WriteLevel(mwDests, level, p, mwFailing)
     IN mwLast' = [op |-> "WriteLevel", level |-> level, p |-> p, tried |-> r.tried,
                   n |-> r.n, err |-> r.err]
  /\ UNCHANGED <<mwDests, mwFailing, facadeVars, rotVars, initVars>>

\* One call of multiLevelWriter.Write.
MWWrite(p) ==
  /\ LET r == Write(mwDests, p, mwFailing)
     IN mwLast' = [op |-> "Write", level |-> NoLevel, p |-> p, tried |-> r.tried,
                   n |-> r.n, err |-> r.err]
  /\ UNCHANGED <<mwDests, mwFailing, facadeVars, rotVars, initVars>>

(***************************************************************************)
(* The rotating file sink: RotatingLogger (older variant) over             *)
(* lumberjack.Logger.                                                      *)
(*                                                                         *)
(* A file of the run is named by [nn, ts, gz]: {base}_{nn}.log when ts = 0,*)
(* the backup {base}_{nn}-{ts}.log lumberjack renames it to otherwise, with*)
(* .gz appended once compressed.  Sizes are in units of the size threshold.*)
(***************************************************************************)
NumThreads == 2

MaxOps == 3

\* LOG_ROTATE_MAX_SIZE and LOG_ROTATE_MAX_BACKUPS of the model's run.
MaxSize == 2

MaxBackups == 1

Threads == 1..NumThreads

NoThread == 0

WriteLens == 1..(MaxSize + 1)

BaseName == "svc_2025-08-10T15-10-22"

RECURSIVE Digits(_)
Digits(n) == IF n < 10 THEN <<n>> ELSE Digits(n \div 10) \o <<n % 10>>

\* fmt's %02d: at least two digits, zero-padded.
Pad2(n) == IF n < 10 THEN <<0>> \o Digits(n) ELSE Digits(n)

\* filepath.Join(dir, fmt.Sprintf("%s_%s.log", base, nn)).
LogPath(dir, base, nn) == [dir |-> dir, base |-> base, nn |-> nn]

LogName(nn) == [nn |-> nn, ts |-> 0, gz |-> FALSE]

\* lumberjack's backupName: the timestamp goes between name and extension.
BackupName(nn, t) == [nn |-> nn, ts |-> t, gz |-> FALSE]

Compressed(f) == [f EXCEPT !.gz = TRUE]

\* The file a path names.
FileOf(path) == LogName(path.nn)

\* lumberjack's l.file == nil.
NoFile == [nn |-> <<>>, ts |-> -1, gz |-> FALSE]

NoFiles == [f \in {} |-> 0]

Put(fs, f, size) == [x \in DOMAIN fs \cup {f} |-> IF x = f THEN size ELSE fs[x]]

Remove(fs, gone) == [x \in DOMAIN fs \ gone |-> fs[x]]

Rename(fs, from, to) == Put(Remove(fs, {from}), to, fs[from])

\* lumberjack's state as one value, with the outcome of the call under way:
\* err, and the number of rotations it performed.
LjState ==
  [file |-> ljFile, size |-> ljSize, files |-> files, clock |-> clock,
   mill |-> millPending, err |-> FALSE, rotated |-> 0]

\* lumberjack openNew: an existing file at the path is renamed to a backup
\* stamped with the current time, then the path is created empty and opened.
ljOpenNew(s, path, ok) ==
  IF ~ok THEN [s EXCEPT !.err = TRUE]
  ELSE LET name == FileOf(path)
           exists == name \in DOMAIN s.files
           t == s.clock + 1
           moved == IF exists THEN Rename(s.files, name, BackupName(name.nn, t))
                    ELSE s.files
       IN [s EXCEPT !.files = Put(moved, name, 0),
                    !.clock = IF exists THEN t ELSE s.clock,
                    !.file = name,
                    !.size = 0]

\* lumberjack rotate: close, openNew, then ask the mill to compress and prune.
ljRotate(s, path, ok) ==
  LET o == ljOpenNew([s EXCEPT !.file = NoFile], path, ok)
  IN IF o.err THEN o ELSE [o EXCEPT !.mill = TRUE, !.rotated = @ + 1]

\* lumberjack openExistingOrNew, on a Write with no file open.
ljOpenExistingOrNew(s, path, len, ok) ==
  LET m == [s EXCEPT !.mill = TRUE]
      name == FileOf(path)
  IN IF name \notin DOMAIN s.files THEN ljOpenNew(m, path, ok)
     ELSE IF s.files[name] + len >= MaxSize THEN ljRotate(m, path, ok)
     ELSE [m EXCEPT !.file = name, !.size = s.files[name]]

\* lumberjack Write: refuse a record longer than the threshold, open the file
\* if none is open, rotate first if the record would not fit, then append.
ljWrite(s, path, len, ok) ==
  IF len > MaxSize THEN [s EXCEPT !.err = TRUE]
  ELSE LET a == IF s.file = NoFile THEN ljOpenExistingOrNew(s, path, len, ok) ELSE s
       IN IF a.err THEN a
          ELSE LET b == IF a.size + len > MaxSize THEN ljRotate(a, path, ok) ELSE a
               IN IF b.err THEN b
                  ELSE [b EXCEPT !.files = Put(b.files, b.file, b.files[b.file] + len),
                                 !.size = b.size + len]

\* The k newest of a set of backup timestamps.
Newest(stamps, k) == {t \in stamps : Cardinality({u \in stamps : u > t}) < k}

\* lumberjack millRunOnce: the backups of the current path, i.e. the files
\* named {path's name}-{timestamp}.log[.gz]; beyond MaxBackups the oldest are
\* removed, the others are compressed.
millRunOnce(fs, path) ==
  LET backups == {f \in DOMAIN fs : f.nn = path.nn /\ f.ts > 0}
      stamps == {f.ts : f \in backups}
      keep == IF MaxBackups > 0 /\ MaxBackups < Cardinality(backups)
                THEN Newest(stamps, MaxBackups) ELSE stamps
      remove == {f \in backups : f.ts \notin keep}
      compress == {f \in backups \ remove : ~f.gz}
      left == Remove(fs, remove \cup compress)
  IN [x \in DOMAIN left \cup {Compressed(f) : f \in compress} |->
        IF x \in DOMAIN left /\ ~(\E f \in compress : Compressed(f) = x)
          THEN left[x]
          ELSE fs[CHOOSE f \in compress : Compressed(f) = x]]

\* NewRotatingLogger: the path ends in the literal _00.log, index is left at
\* its zero value, and lumberjack opens nothing until the first Write.
InitialPath == LogPath("logs", BaseName, <<0, 0>>)

NoWrite ==
  [t |-> NoThread, len |-> 0, err |-> FALSE, crossed |-> FALSE, rotated |-> 0,
   indexBefore |-> 0, indexAfter |-> 0, file |-> NoFile, path |-> InitialPath]

RotInit ==
  /\ rlIndex = 0
  /\ rlFilename = InitialPath
  /\ ljFile = NoFile
  /\ ljSize = 0
  /\ files = NoFiles
  /\ clock = 0
  /\ millPending = FALSE
  /\ mu = NoThread
  /\ pc = [t \in Threads |-> "idle"]
  /\ req = [t \in Threads |-> 0]
  /\ ops = 0
  /\ lastWrite = NoWrite

\* A mutex that never makes its caller wait.
CanLockAlways(holder) == TRUE

\* sync.Mutex.Lock returns only while no goroutine holds the mutex.
CanLock(holder) == holder = NoThread

\* What lumberjack leaves behind after a call.
LjApply(r) ==
  /\ ljFile' = r.file
  /\ ljSize' = r.size
  /\ files' = r.files
  /\ clock' = r.clock
  /\ millPending' = r.mill

\* A goroutine calls rl.Write(p) with len(p) = len.
CallWrite(t, len) ==
  /\ pc[t] = "idle"
  /\ ops < MaxOps
  /\ pc' = [pc EXCEPT ![t] = "w_lock"]
  /\ req' = [req EXCEPT ![t] = len]
  /\ ops' = ops + 1
  /\ UNCHANGED <<rlIndex, rlFilename, ljFile, ljSize, files, clock, millPending, mu,
                 lastWrite>>
  /\ UNCHANGED <<facadeVars, mwVars, initVars>>

\* RotatingLogger.Write: rl.mu.Lock().
WriteLock(t) ==
  /\ pc[t] = "w_lock"
  /\ CanLock(mu)
  /\ mu' = t
  /\ pc' = [pc EXCEPT ![t] = "w_cs"]
  /\ UNCHANGED <<rlIndex, rlFilename, ljFile, ljSize, files, clock, millPending, req,
                 ops, lastWrite>>
  /\ UNCHANGED <<facadeVars, mwVars, initVars>>

\* The size the record is added to: that of the open file, or of the file at
\* the current path when none is open yet.
CurrentSize ==
  IF ljFile # NoFile THEN ljSize
  ELSE IF FileOf(rlFilename) \in DOMAIN files THEN files[FileOf(rlFilename)]
  ELSE 0

\* RotatingLogger.Write: return rl.Logger.Write(p).  Nothing here touches
\* rl.index or rl.Filename; a rotation is lumberjack's own.
WriteBody(t) ==
  /\ pc[t] = "w_cs"
  /\ \E ok \in BOOLEAN :
       LET r == ljWrite(LjState, rlFilename, req[t], ok)
       IN /\ LjApply(r)
          /\ lastWrite' = [t |-> t, len |-> req[t], err |-> r.err,
                           crossed |-> CurrentSize + req[t] > MaxSize,
                           rotated |-> r.rotated,
                           indexBefore |-> rlIndex, indexAfter |-> rlIndex,
                           file |-> r.file, path |-> rlFilename]
  /\ pc' = [pc EXCEPT ![t] = "w_ret"]
  /\ UNCHANGED <<rlIndex, rlFilename, mu, req, ops>>
  /\ UNCHANGED <<facadeVars, mwVars, initVars>>

\* RotatingLogger.Write: the deferred rl.mu.Unlock().
WriteUnlock(t) ==
  /\ pc[t] = "w_ret"
  /\ mu' = NoThread
  /\ pc' = [pc EXCEPT ![t] = "idle"]
  /\ UNCHANGED <<rlIndex, rlFilename, ljFile, ljSize, files, clock, millPending, req,
                 ops, lastWrite>>
  /\ UNCHANGED <<facadeVars, mwVars, initVars>>

\* A goroutine calls rl.Rotate().
CallRotate(t) ==
  /\ pc[t] = "idle"
  /\ ops < MaxOps
  /\ pc' = [pc EXCEPT ![t] = "r_lock"]
  /\ ops' = ops + 1
  /\ UNCHANGED <<rlIndex, rlFilename, ljFile, ljSize, files, clock, millPending, mu,
                 req, lastWrite>>
  /\ UNCHANGED <<facadeVars, mwVars, initVars>>

\* RotatingLogger.Rotate: rl.mu.Lock().
RotateLock(t) ==
  /\ pc[t] = "r_lock"
  /\ CanLock(mu)
  /\ mu' = t
  /\ pc' = [pc EXCEPT ![t] = "r_cs"]
  /\ UNCHANGED <<rlIndex, rlFilename, ljFile, ljSize, files, clock, millPending, req,
                 ops, lastWrite>>
  /\ UNCHANGED <<facadeVars, mwVars, initVars>>

\* RotatingLogger.Rotate: rl.Logger.Rotate(), and the early return on error.
\* lumberjack has reopened the file at the path of before the call.
RotateLj(t) ==
  /\ pc[t] = "r_cs"
  /\ \E ok \in BOOLEAN :
       LET r == ljRotate(LjState, rlFilename, ok)
       IN /\ LjApply(r)
          /\ pc' = [pc EXCEPT ![t] = IF r.err THEN "r_ret" ELSE "r_upd"]
  /\ UNCHANGED <<rlIndex, rlFilename, mu, req, ops, lastWrite>>
  /\ UNCHANGED <<facadeVars, mwVars, initVars>>

\* RotatingLogger.Rotate: rl.index++ and the new rl.Filename.
RotateUpdate(t) ==
  /\ pc[t] = "r_upd"
  /\ rlIndex' = rlIndex + 1
  /\ rlFilename' = LogPath(rlFilename.dir, BaseName, Pad2(rlIndex + 1))
  /\ pc' = [pc EXCEPT ![t] = "r_ret"]
  /\ UNCHANGED <<ljFile, ljSize, files, clock, millPending, mu, req, ops, lastWrite>>
  /\ UNCHANGED <<facadeVars, mwVars, initVars>>

\* RotatingLogger.Rotate: the deferred rl.mu.Unlock().
RotateUnlock(t) ==
  /\ pc[t] = "r_ret"
  /\ mu' = NoThread
  /\ pc' = [pc EXCEPT ![t] = "idle"]
  /\ UNCHANGED <<rlIndex, rlFilename, ljFile, ljSize, files, clock, millPending, req,
                 ops, lastWrite>>
  /\ UNCHANGED <<facadeVars, mwVars, initVars>>

\* lumberjack's mill goroutine serves a request.  It takes no lock and reads
\* Filename when it runs, which may be before or after Rotate has changed it.
MillRun ==
  /\ millPending
  /\ files' = millRunOnce(files, rlFilename)
  /\ millPending' = FALSE
  /\ UNCHANGED <<rlIndex, rlFilename, ljFile, ljSize, clock, mu, pc, req, ops, lastWrite>>
  /\ UNCHANGED <<facadeVars, mwVars, initVars>>

(***************************************************************************)
(* The singleton: AppLogger, ensure and InitLogging.  A Logger created by  *)
(* the k-th run of InitLogging is named k, and so is its rotating sink;    *)
(* sinks[k] is "none" when LOG_FILE was off for that run, else the state   *)
(* of the sink's file handle.                                              *)
(***************************************************************************)
MaxInits == 3

Nil == 0

SingletonInit ==
  /\ AppLogger = Nil
  /\ installed = Nil
  /\ sinks = <<>>
  /\ ipc = [t \in Threads |-> "idle"]
  /\ initRuns = [lazy |-> 0, explicit |-> 0]

\* InitLogging: a new rotating sink if files are enabled, a new destination
\* set installed in log.Logger, a new Logger stored in AppLogger.  Whatever
\* was there before is dropped as it is.
InitLogging ==
  /\ Len(sinks) < MaxInits
  /\ \E fileEnabled \in BOOLEAN :
       sinks' = Append(sinks, IF fileEnabled THEN "unopened" ELSE "none")
  /\ installed' = Len(sinks) + 1
  /\ AppLogger' = Len(sinks) + 1

\* A goroutine calls a package-level verb (Info, InfoCtx, ...).
CallVerb(t) ==
  /\ ipc[t] = "idle"
  /\ ipc' = [ipc EXCEPT ![t] = "ensure"]
  /\ UNCHANGED <<AppLogger, installed, sinks, initRuns>>
  /\ UNCHANGED <<facadeVars, mwVars, rotVars>>

\* ensure: if AppLogger == nil.
EnsureCheck(t) ==
  /\ ipc[t] = "ensure"
  /\ ipc' = [ipc EXCEPT ![t] = IF AppLogger = Nil THEN "init" ELSE "use"]
  /\ UNCHANGED <<AppLogger, installed, sinks, initRuns>>
  /\ UNCHANGED <<facadeVars, mwVars, rotVars>>

\* ensure: InitLogging(), after the test found nil.
EnsureInit(t) ==
  /\ ipc[t] = "init"
  /\ InitLogging
  /\ initRuns' = [initRuns EXCEPT !.lazy = @ + 1]
  /\ ipc' = [ipc EXCEPT ![t] = "use"]
  /\ UNCHANGED <<facadeVars, mwVars, rotVars>>

\* The verb itself: the record goes to log.Logger's destinations, and the
\* rotating sink among them opens its file on a Write if it is not open.
UseLogger(t) ==
  /\ ipc[t] = "use"
  /\ sinks' = [i \in DOMAIN sinks |->
                 IF i = installed /\ sinks[i] # "none" THEN "open" ELSE sinks[i]]
  /\ ipc' = [ipc EXCEPT ![t] = "idle"]
  /\ UNCHANGED <<AppLogger, installed, initRuns>>
  /\ UNCHANGED <<facadeVars, mwVars, rotVars>>

\* A goroutine calls InitLogging() itself.
ExplicitInit(t) ==
  /\ ipc[t] = "idle"
  /\ InitLogging
  /\ initRuns' = [initRuns EXCEPT !.explicit = @ + 1]
  /\ UNCHANGED ipc
  /\ UNCHANGED <<facadeVars, mwVars, rotVars>>

\* AppLogger.Shutdown(): closes the rotating sink of the current Logger.
Shutdown(t) ==
  /\ ipc[t] = "idle"
  /\ AppLogger # Nil
  /\ sinks' = [i \in DOMAIN sinks |->
                 IF i = AppLogger /\ sinks[i] = "open" THEN "closed" ELSE sinks[i]]
  /\ UNCHANGED <<AppLogger, installed, ipc, initRuns>>
  /\ UNCHANGED <<facadeVars, mwVars, rotVars>>

(***************************************************************************)
(* Specifications.                                                         *)
(***************************************************************************)
\* The facade: logging calls on a configured logger.
Init == FacadeInit /\ MWIdle /\ RotInit /\ SingletonInit

Next ==
  \/ \E level \in VerbLevels, args \in LogArgLists : logEvent(level, args)
  \/ \E ctx \in CtxSet, level \in VerbLevels, args \in LogArgLists :
       logEventCtx(ctx, level, args)
  \/ \E args \in FatalArgLists : Fatal(args)

Spec == Init /\ [][Next]_vars

\* The multi-writer over any destination list.
InitMW == FacadeIdle /\ MWInit /\ RotInit /\ SingletonInit

NextMW ==
  \/ \E level \in MWLevels, p \in MWPayloads : MWWriteLevel(level, p)
  \/ \E p \in MWPayloads : MWWrite(p)

SpecMW == InitMW /\ [][NextMW]_vars

\* The rotating sink under concurrent Write and Rotate.
InitRot == FacadeIdle /\ MWIdle /\ RotInit /\ SingletonInit

NextRot ==
  \/ \E t \in Threads, len \in WriteLens : CallWrite(t, len)
  \/ \E t \in Threads : WriteLock(t)
  \/ \E t \in Threads : WriteBody(t)
  \/ \E t \in Threads : WriteUnlock(t)
  \/ \E t \in Threads : CallRotate(t)
  \/ \E t \in Threads : RotateLock(t)
  \/ \E t \in Threads : RotateLj(t)
  \/ \E t \in Threads : RotateUpdate(t)
  \/ \E t \in Threads : RotateUnlock(t)
  \/ MillRun

SpecRot == InitRot /\ [][NextRot]_vars

\* The singleton under concurrent first use and re-initialisation.
InitSingleton == FacadeIdle /\ MWIdle /\ RotInit /\ SingletonInit

NextSingleton ==
  \/ \E t \in Threads : CallVerb(t)
  \/ \E t \in Threads : EnsureCheck(t)
  \/ \E t \in Threads : EnsureInit(t)
  \/ \E t \in Threads : UseLogger(t)
  \/ \E t \in Threads : ExplicitInit(t)
  \/ \E t \in Threads : Shutdown(t)

SpecSingleton == InitSingleton /\ [][NextSingleton]_vars

\* The sampler over long runs: a logger with two JSON destinations, any
\* ratio, and a counter that is either fresh or a few events short of 2^32.
SampleNs == 0..(MaxSamplingN + 1)

NearWrap == 0 - (MaxSamplingN + 1)

SampleLevels == {DebugLevel, WarnLevel}

SampleArgs == <<StringArg("tick")>>

InitSample ==
  /\ \E cl, fl \in SampleLevels :
       dests = BuildDests(TRUE, TRUE, TRUE, "json", cl, fl)
  /\ gate = BaseLevel(dests)
  /\ samplingN \in SampleNs
  /\ consoleOut = TRUE
  /\ counter \in {0, NearWrap}
  /\ last = NoLast
  /\ out = NoOut
  /\ exited = FALSE
  /\ exitCode = 0
  /\ recent = <<>>
  /\ cfg = NoCfg
  /\ stack = AppStack
  /\ MWIdle /\ RotInit /\ SingletonInit

NextSample ==
  \/ \E level \in VerbLevels : logEvent(level, SampleArgs)
  \/ \E ctx \in CtxSet, level \in VerbLevels : logEventCtx(ctx, level, SampleArgs)

SpecSample == InitSample /\ [][NextSample]_vars

\* One logging call on a fresh logger, over every short argument list and
\* every context: what a call normalises and encodes does not depend on the
\* calls before it.
MaxArgs == 3

ArgPalette ==
  { StringArg("a"), StringArg(""), ErrorArg("e1"), ErrorArg("e2"),
    MapArg([k |-> "1"]), MapArg([k |-> "2", value |-> "m"]), MapArg([level |-> "user"]),
    StringerArg("s"), NilStringerArg, NilArg, ScalarArg("7") }

\* Lists with a struct among the arguments.
StructArgLists ==
  { <<FatalErrorArg(42)>>,
    <<MapArg([k |-> "2", value |-> "m"]), NilPtrArg, FatalErrorArg(2)>> }

RecArgLists == UNION {[1..n -> ArgPalette] : n \in 0..MaxArgs} \cup StructArgLists

CtxArgLists == { <<StringArg("a")>>, <<StringArg("a"), MapArg([k |-> "1"])>> }

RecCtxSet ==
  [request_id : {Unset, Str(""), Str("req-2"), NotAString},
   trace_id : {Unset, Str(""), Str("tr-1"), NotAString},
   span_id : {Unset, Str(""), Str("sp-3"), NotAString}]

RecLevels == {InfoLevel}

InitRec ==
  /\ dests = BuildDests(TRUE, TRUE, TRUE, "json", DebugLevel, InfoLevel)
  /\ gate = BaseLevel(dests)
  /\ samplingN = 1
  /\ consoleOut = TRUE
  /\ counter = 0
  /\ last = NoLast
  /\ out = NoOut
  /\ exited = FALSE
  /\ exitCode = 0
  /\ recent = <<>>
  /\ cfg = NoCfg
  /\ stack = AppStack
  /\ MWIdle /\ RotInit /\ SingletonInit

NextRec ==
  \/ \E level \in RecLevels, args \in RecArgLists :
       last = NoLast /\ logEvent(level, args)
  \/ \E ctx \in RecCtxSet, level \in RecLevels, args \in CtxArgLists :
       last = NoLast /\ logEventCtx(ctx, level, args)

SpecRec == InitRec /\ [][NextRec]_vars

\* One logging call from each of a family of call stacks: userCaller and
\* logEvent, then a number of further frames of the package (the verb, the
\* package-level shortcut, helpers), then one or two frames of the
\* application, then the runtime.
ExampleFrame ==
  Frame("app", <<"main">>, <<"main">>,
        <<"home", "dev", "prezerolog", "examples", "basic", "main.go">>, 14)

MethodFrame ==
  Frame("app", <<"main">>, <<"Prezerolog", "Run">>, <<"srv", "app", "run.go">>, 52)

ToolFrame ==
  Frame("app", <<"example.com", "tools", "prezerolog">>, <<"Report">>,
        <<"srv", "tools", "report.go">>, 9)

AppFrames == {MainFrame, ExampleFrame, MethodFrame, ToolFrame}

AppFrameLists ==
  {<<f>> : f \in AppFrames} \cup {<<f, g>> : f \in AppFrames, g \in AppFrames}

\* The numbers of package frames above logEvent, up to more than the loop visits.
StackOf(n, app) ==
  <<UserCallerFrame, LogEventFrame>> \o [i \in 1..n |-> VerbFrame] \o app
  \o <<RuntimeFrame>>

Stacks == {StackOf(n, app) : n \in 1..FrameLimit, app \in AppFrameLists}

InitCaller ==
  /\ dests = BuildDests(TRUE, TRUE, TRUE, "json", DebugLevel, InfoLevel)
  /\ gate = BaseLevel(dests)
  /\ samplingN = 1
  /\ consoleOut = TRUE
  /\ counter = 0
  /\ last = NoLast
  /\ out = NoOut
  /\ exited = FALSE
  /\ exitCode = 0
  /\ recent = <<>>
  /\ cfg = NoCfg
  /\ stack \in Stacks
  /\ MWIdle /\ RotInit /\ SingletonInit

NextCaller ==
  \/ \E level \in RecLevels : last = NoLast /\ logEvent(level, SampleArgs)
  \/ \E ctx \in CtxSet, level \in RecLevels :
       last = NoLast /\ logEventCtx(ctx, level, SampleArgs)

SpecCaller == InitCaller /\ [][NextCaller]_vars

\* One FatalCode call on a configured logger.
FatalCodeArgLists ==
  { <<>>,
    <<StringArg("boom")>>,
    <<StringArg("boom"), FatalErrorArg(42)>>,
    <<FatalErrorArg(2), ErrorArg("x")>> }

NextFatalCode == \E code \in {0, 2, 42}, args \in FatalCodeArgLists : FatalCode(code, args)

SpecFatalCode == Init /\ [][NextFatalCode]_vars

\* Configuration as a step: a process that has not configured logging yet,
\* configureZerolog over every combination of its parameters, then logging
\* calls on the configured logger.  InitLogging passes a rotator exactly when
\* fileEnabled; the function itself also takes fileEnabled with a nil rotator.
InitConfig ==
  /\ dests = <<>>
  /\ gate = NoLevel
  /\ samplingN = 1
  /\ consoleOut = FALSE
  /\ counter = 0
  /\ last = NoLast
  /\ out = NoOut
  /\ exited = FALSE
  /\ exitCode = 0
  /\ recent = <<>>
  /\ cfg = NoCfg
  /\ stack = AppStack
  /\ MWIdle /\ RotInit /\ SingletonInit

\* configureZerolog, with the Logger that InitLogging builds around it: the
\* destination list, the base logger's level, the sampler (a new one, at 0)
\* and consoleOut.  cfg keeps the parameters of the call.
configureZerolog(rotatorSet, fileEnabled, consoleEnabled, mode, consoleLevel, fileLevel, n) ==
  /\ ~cfg.set
  /\ dests' = BuildDests(rotatorSet, fileEnabled, consoleEnabled, mode, consoleLevel,
                         fileLevel)
  /\ gate' = BaseLevel(dests')
  /\ samplingN' = n
  /\ consoleOut' = consoleEnabled
  /\ counter' = 0
  /\ cfg' = [set |-> TRUE, rotatorSet |-> rotatorSet, fileEnabled |-> fileEnabled,
             consoleEnabled |-> consoleEnabled]
  /\ UNCHANGED <<last, out, exited, exitCode, recent, stack>>
  /\ UNCHANGED <<mwVars, rotVars, initVars>>

NextConfig ==
  \/ \E rotatorSet, fileEnabled, consoleEnabled \in BOOLEAN, mode \in {"json", "full"},
        cl, fl \in {"debug", "warn"}, n \in {1, MaxSamplingN} :
       configureZerolog(rotatorSet, fileEnabled, consoleEnabled, mode,
                        ConfiguredLevel(cl), ConfiguredLevel(fl), n)
  \/ \E level \in SampleLevels : cfg.set /\ logEvent(level, SampleArgs)
  \/ \E ctx \in CtxSet, level \in SampleLevels :
       cfg.set /\ logEventCtx(ctx, level, SampleArgs)
  \/ cfg.set /\ Fatal(SampleArgs)

SpecConfig == InitConfig /\ [][NextConfig]_vars

(***************************************************************************)
(* Properties.                                                             *)
(***************************************************************************)
Count(seq, x) == Cardinality({i \in 1..Len(seq) : seq[i] = x})

Range(seq) == {seq[i] : i \in 1..Len(seq)}

NonFatalVerbs == {"log", "logctx"}

\* C1: with sampling disabled, the record of a non-fatal verb (plain or Ctx)
\* at level L reaches the writer of each destination d unmodified and exactly
\* once if L >= d.min, and not at all otherwise, whatever the thresholds and
\* with the base logger's gate applied first.
C1_DeliveredIffAtOrAboveThreshold ==
  (~HasSampler(samplingN) /\ last.verb \in NonFatalVerbs) =>
    \A k \in 1..Len(dests) :
      /\ Count(out[dests[k].w], last.p) = (IF last.level >= dests[k].min THEN 1 ELSE 0)
      /\ Len(out[dests[k].w]) = Count(out[dests[k].w], last.p)

\* A record between two thresholds: the first destination got it once, the
\* second did not.
C1_Witness ==
  /\ ~HasSampler(samplingN)
  /\ last.verb \in NonFatalVerbs
  /\ Len(dests) = 2
  /\ dests[1].min <= last.level
  /\ last.level < dests[2].min
  /\ out[dests[1].w] = <<last.p>>
  /\ out[dests[2].w] = <<>>

\* The writers a call must try, in list order: the non-nil destinations, for
\* WriteLevel those whose threshold the level reaches.
QualifyingWriters(ds, op, level) ==
  LET Wanted(d) == d.w # NilWriter /\ (op = "Write" \/ level >= d.min)
      sel == SelectSeq(ds, Wanted)
  IN [i \in 1..Len(sel) |-> sel[i].w]

\* C2: whatever the destination list and whichever writers fail, WriteLevel
\* and Write call Write on every qualifying destination in list order and
\* return (len(p), nil).
C2_NoShortCircuit ==
  mwLast.op # "none" =>
    /\ mwLast.tried = QualifyingWriters(mwDests, mwLast.op, mwLast.level)
    /\ mwLast.n = Len(mwLast.p)
    /\ mwLast.err = NoError

\* A WriteLevel whose first qualifying destination fails and which went on to
\* a later one.
C2_Witness ==
  /\ mwLast.op = "WriteLevel"
  /\ Len(mwLast.tried) >= 2
  /\ mwLast.tried[1] \in mwFailing
  /\ mwLast.n = Len(mwLast.p)

\* C3: a successful Write whose bytes take the current file over the size
\* threshold triggers exactly one rotation, and the rotation index and the
\* file name advance by one.  (Stated where the Write has done its work and
\* still holds the mutex.)
C3_CrossingWriteAdvancesIndex ==
  \A t \in Threads :
    (pc[t] = "w_ret" /\ lastWrite.t = t /\ ~lastWrite.err /\ lastWrite.crossed) =>
      /\ lastWrite.rotated = 1
      /\ rlIndex = lastWrite.indexBefore + 1
      /\ rlFilename.nn = Pad2(lastWrite.indexBefore + 1)

\* C4: the log files of the run never number more than max_backups + 1.
\* (Stated for the states in which no operation is under way and the mill
\* has served every request, i.e. after pruning has run.)
C4_FileCountBounded ==
  (~millPending /\ \A t \in Threads : pc[t] = "idle") =>
    Cardinality(DOMAIN files) <= MaxBackups + 1

\* C5: the index starts at 0 and never decreases, the current path is
\* {dir}/{base}_{index:02d}.log, and that is the file a Write appends to.
C5_IndexPathAndTarget ==
  /\ rlIndex = 0
  /\ [](/\ rlFilename = LogPath("logs", BaseName, Pad2(rlIndex))
        /\ (lastWrite.t # NoThread /\ ~lastWrite.err) =>
             lastWrite.file = FileOf(lastWrite.path))
  /\ [][rlIndex' >= rlIndex]_vars

\* Inside Write or Rotate, between Lock and the deferred Unlock.
InCriticalSection(t) == pc[t] \in {"w_cs", "w_ret", "r_cs", "r_upd", "r_ret"}

\* C6: no two goroutines are inside Write or Rotate at once, the one inside
\* holds the mutex, and a record that was written is whole in one file.
C6_MutualExclusion ==
  /\ \A t, u \in Threads : (InCriticalSection(t) /\ InCriticalSection(u)) => t = u
  /\ \A t \in Threads : InCriticalSection(t) => mu = t
  /\ \A t \in Threads :
       (pc[t] = "w_ret" /\ lastWrite.t = t /\ ~lastWrite.err) =>
         /\ lastWrite.file \in DOMAIN files
         /\ lastWrite.len <= files[lastWrite.file]
         /\ files[lastWrite.file] <= MaxSize

\* One goroutine is inside Write while another waits to enter Rotate.
C6_Witness ==
  \E t, u \in Threads : t # u /\ pc[t] = "w_cs" /\ pc[u] = "r_lock" /\ mu = t

\* C7: lazy first use runs InitLogging at most once, also when the first
\* package-level calls are concurrent.
C7_LazyInitAtMostOnce == initRuns.lazy <= 1

\* C8: InitLogging called twice in sequence leaves no second live set: a
\* rotating sink other than the installed one has no open file.  (Stated for
\* runs in which every InitLogging was an explicit call.)
C8_NoSecondLiveSet ==
  initRuns.lazy = 0 =>
    \A i \in DOMAIN sinks : sinks[i] = "open" => i = installed

\* C9: Fatal exits with the Code of the first FatalError argument whose Code
\* is not 0, and with 1 if there is none.
C9_ExitCodeFromArgs ==
  exited => (exitCode = ExitCodeFromArgs(last.args) /\ exitCode # 0)

\* C10: a Fatal call's record reaches the destinations before the process
\* ends, whatever the sampling ratio.  (Stated for the documented thresholds,
\* trace to warn, which the fatal level reaches at every destination.)
C10_FatalAlwaysDispatched ==
  (exited /\ \A k \in 1..Len(dests) : dests[k].min <= WarnLevel) =>
    \A k \in 1..Len(dests) : out[dests[k].w] = <<last.p>>

\* The calls in the sampler's window that were dispatched.
Dispatched == {i \in 1..Len(recent) : recent[i].on}

\* The window holds the call that took the counter from 2^32 - 1 to 0 and
\* the one before it.
SpansWrap ==
  /\ \E i \in 1..Len(recent) : recent[i].c = -1
  /\ \E i \in 1..Len(recent) : recent[i].c = 0

OfKind(args, kind) ==
  LET sel == SelectSeq(args, LAMBDA a : a.kind = kind)
  IN [i \in 1..Len(sel) |-> sel[i].v]

\* The last element of a sequence, or a default.
LastOr(seq, default) == IF Len(seq) = 0 THEN default ELSE seq[Len(seq)]

\* C12: processLogArgs never panics, whatever the arguments; the message is
\* the last string argument (when that is empty or there is none, the empty
\* string or the text of a Stringer argument); the error is the last error
\* argument, or nil.
C12_NormalizerTotal ==
  last.verb # "none" =>
    /\ ~last.norm.panic
    /\ LET ls == LastOr(OfKind(last.args, "string"), "")
           texts == {a.v : a \in {b \in Range(last.args) : b.kind = "stringer"}}
       IN IF ls # "" THEN last.norm.message = ls
          ELSE last.norm.message \in texts \cup {""}
    /\ last.norm.err = LastOr(OfKind(last.args, "error"), NoError)

\* The positions of the map arguments that contain key k.
MapsWith(args, k) ==
  {i \in 1..Len(args) : args[i].kind = "map" /\ k \in DOMAIN args[i].m}

\* The keys of all map arguments.
MapKeys(args) ==
  UNION {DOMAIN args[i].m : i \in {j \in 1..Len(args) : args[j].kind = "map"}}

Highest(S) == CHOOSE i \in S : \A j \in S : j <= i

\* Argument i stores something under key k: a map that has k, a struct with
\* an exported field k, a value of no recognised type (under value), or a
\* Stringer that finds the message already set (under value).
WritesKey(args, i, k) ==
  CASE args[i].kind = "map" -> k \in DOMAIN args[i].m
    [] args[i].kind = "FatalError" -> k \in {"Message", "Code", "File"}
    [] args[i].kind = "scalar" -> k = "value"
    [] args[i].kind = "stringer" ->
         k = "value" /\ processLogArgs(SubSeq(args, 1, i - 1)).message # ""
    [] OTHER -> FALSE

ReservedKeys ==
  {"time", "level", "msg", "service", "env", "caller", "err", "trace_id", "span_id",
   "request_id"}

\* How often key k is written in the bytes p.
Occurrences(p, k) == Cardinality({i \in 1..Len(p) : p[i][1] = k})

HasPair(p, k, v) == \E i \in 1..Len(p) : p[i] = <<k, v>>

\* C14: in an emitted record every reserved key appears at most once, and
\* level, time, service, env, caller, msg and err carry the values the logger
\* gives them, whatever the names of the user's fields.
C14_ReservedKeysOnce ==
  (last.verb # "none" /\ ~last.norm.panic) =>
    /\ \A k \in ReservedKeys : Occurrences(last.p, k) <= 1
    /\ HasPair(last.p, "level", LevelName(last.level))
    /\ HasPair(last.p, "time", Now)
    /\ HasPair(last.p, "service", "svc")
    /\ HasPair(last.p, "env", "production")
    /\ HasPair(last.p, "caller", userCaller(stack))
    /\ last.norm.message # "" => HasPair(last.p, "msg", last.norm.message)
    /\ last.norm.err # NoError => HasPair(last.p, "err", last.norm.err)

CtxIds == {"trace_id", "span_id", "request_id"}

\* The context holds a non-empty string under the key of id.
Carries(ctx, id) == ctx[id].kind = "string" /\ ctx[id].v # ""

\* C15: the record of a Ctx verb has each of trace_id, span_id, request_id,
\* once and with the context's value, if the context holds a non-empty
\* string under its key, and does not have it otherwise.
C15_CtxIdsIffNonEmpty ==
  (last.verb = "logctx" /\ ~last.norm.panic) =>
    \A id \in CtxIds :
      IF Carries(last.ctx, id)
        THEN Occurrences(last.p, id) = 1 /\ HasPair(last.p, id, last.ctx[id].v)
        ELSE Occurrences(last.p, id) = 0

\* trace_id and request_id set, span_id stored as an empty string: the
\* record has the first two and no span_id.
C15_Witness ==
  /\ last.verb = "logctx"
  /\ last.ctx = [request_id |-> Str("req-2"), trace_id |-> Str("tr-1"), span_id |-> Str("")]
  /\ HasPair(last.p, "trace_id", "tr-1")
  /\ HasPair(last.p, "request_id", "req-2")
  /\ Occurrences(last.p, "span_id") = 0

\* The frames userCaller looks at, runtime.Caller(2) to runtime.Caller(29),
\* that do not belong to the logging package.
OutsideFrames(st) ==
  {i \in (FirstFrame + 1)..FrameLimit : i <= Len(st) /\ st[i].pkg # "prezerolog"}

Lowest(S) == CHOOSE i \in S : \A j \in S : i <= j

\* C16: the caller of a record is basename(file):line of the first frame,
\* walking outward, that is not of the logging package, and there is no
\* caller only if the frames looked at have no such frame.
C16_CallerIsFirstOutsideFrame ==
  last.verb # "none" =>
    LET outs == OutsideFrames(stack)
    IN IF outs = {} THEN Occurrences(last.p, "caller") = 0
       ELSE LET f == stack[Lowest(outs)]
            IN HasPair(last.p, "caller", Base(f.file) \o ":" \o ToString(f.line))

\* C17: a rotating sink whose handle Shutdown released stays released: no
\* later step, a logging call or a second Shutdown, opens it again.
C17_ClosedSinkStaysClosed ==
  [][\A i \in DOMAIN sinks : sinks[i] = "closed" => sinks'[i] = "closed"]_vars

\* The message has been set by an argument before position i: a string, the
\* empty string included, or a Stringer, which either became the message or
\* found one.
MessageSetBefore(args, i) ==
  \E j \in 1..(i - 1) : args[j].kind \in {"string", "stringer"}

\* C18: a Stringer argument becomes the message when no earlier argument has
\* set the message; otherwise the message stays what it was and the
\* Stringer's text is stored under the field value.
C18_StringerMessageOrValue ==
  last.verb # "none" =>
    \A i \in 1..Len(last.args) :
      LET before == processLogArgs(SubSeq(last.args, 1, i - 1))
          after == processLogArgs(SubSeq(last.args, 1, i))
      IN (last.args[i].kind = "stringer" /\ ~after.panic) =>
           IF MessageSetBefore(last.args, i)
             THEN /\ after.message = before.message
                  /\ "value" \in DOMAIN after.fields
                  /\ after.fields["value"] = last.args[i].v
             ELSE after.message = last.args[i].v

\* C19: FatalCode(code, args) ends the process with code when code is not
\* 0, whatever args holds, and with 1 when code is 0.  The code is the Code
\* of the FatalError that FatalCode appended, the last argument of the call.
C19_FatalCodeExitsWithCode ==
  last.verb = "Fatal" =>
    LET code == last.args[Len(last.args)].Code
    IN exited /\ exitCode = (IF code # 0 THEN code ELSE 1)

\* What configureZerolog must have left: at least one destination, and when
\* neither a file destination nor a console destination was to be had, the
\* one fallback destination, raw JSON on stdout from info up.
DestsAsConfigured ==
  /\ Len(dests) >= 1
  /\ (~(cfg.fileEnabled /\ cfg.rotatorSet) /\ ~cfg.consoleEnabled) =>
       dests = <<levelDest("stdout", InfoLevel)>>

\* C20: once configured, the destination list is never empty, is the fallback
\* when nothing was enabled, and no logging call changes it.
C20_DestsNeverEmptyNeverChanged ==
  /\ [](cfg.set => DestsAsConfigured)
  /\ [][cfg.set => dests' = dests]_vars

\* File enabled without a rotator and no console: the fallback is in place
\* after a logging call that was written to it.
C20_Witness ==
  /\ cfg.set
  /\ cfg.fileEnabled /\ ~cfg.rotatorSet /\ ~cfg.consoleEnabled
  /\ dests = <<levelDest("stdout", InfoLevel)>>
  /\ last.verb = "logctx"
  /\ out # NoOut

====
